---- MODULE Spec2Model ----
(***************************************************************************)
(* Scorecard (optbinning/scorecard/scorecard.py): the point-scaling,       *)
(* intercept-rebalancing and rounding pipeline of Scorecard._fit, and the  *)
(* life cycle of one Scorecard instance (set_params, fit, score, table,    *)
(* predict, predict_proba, information).                                   *)
(*                                                                         *)
(* Numbers.  numpy float64 values are modelled as extended rationals       *)
(* <<n, d>> in lowest terms with d >= 0:  d > 0 is the finite value n/d,   *)
(* <<1, 0>> is +inf, <<-1, 0>> is -inf and <<0, 0>> is NaN, with the IEEE  *)
(* rules numpy applies to them (x/0 = +-inf, 0/0 = NaN, inf - inf = NaN,   *)
(* inf * 0 = NaN, NaN absorbing).  Floating-point rounding error is not    *)
(* modelled: finite arithmetic is exact.                                   *)
(*                                                                         *)
(* Logarithms.  Raw points and the estimator's intercept are measured in   *)
(* units of ln 2 (the value k stands for k * ln 2) and the configured odds *)
(* are powers of two, so that in the pdo_odds branch factor * x and        *)
(* factor * log(odds) are the rationals pdo * x and pdo * log2(odds).      *)
(* The min_max branch is invariant under the choice of unit.               *)
(***************************************************************************)
EXTENDS Integers, Sequences, FiniteSets, TLC

(***************************************************************************)
(* Bounds of the model.                                                    *)
(***************************************************************************)
MaxFits == 2     \* fit calls on the instance
MaxVars == 2     \* selected variables of the binning process
MaxBins == 2     \* bins of one variable's binning table

(***************************************************************************)
(* Extended rational arithmetic (numpy float64 without rounding error).    *)
(***************************************************************************)
Abs(i) == IF i < 0 THEN -i ELSE i

Sign(i) == IF i < 0 THEN -1 ELSE IF i > 0 THEN 1 ELSE 0

RECURSIVE GCD(_, _)
GCD(i, j) == IF j = 0 THEN i ELSE GCD(j, i % j)

Norm(n, d) ==
    IF d = 0 THEN <<Sign(n), 0>>
    ELSE LET g == GCD(Abs(n), Abs(d))
         IN  IF d < 0 THEN <<(-n) \div g, (-d) \div g>>
                      ELSE <<n \div g, d \div g>>

R(i) == <<i, 1>>

NaN == <<0, 0>>

IsFinite(x) == x[2] # 0

IsNaN(x) == x = NaN

RNeg(x) == <<-x[1], x[2]>>

RAdd(x, y) ==
    IF x[2] = 0 /\ y[2] = 0
    THEN IF x[1] = y[1] THEN x ELSE NaN
    ELSE Norm(x[1] * y[2] + y[1] * x[2], x[2] * y[2])

RSub(x, y) == RAdd(x, RNeg(y))

RMul(x, y) == Norm(x[1] * y[1], x[2] * y[2])

\* x / y as numpy divides float64 values: no exception on a zero divisor.
RDiv(x, y) ==
    IF y[1] = 0 /\ y[2] # 0 THEN <<Sign(x[1]), 0>>
    ELSE Norm(x[1] * y[2] * Sign(y[1]), x[2] * Abs(y[1]))

\* x < y as numpy compares: every comparison with NaN is false.
RLess(x, y) ==
    IF IsNaN(x) \/ IsNaN(y) THEN FALSE
    ELSE IF x[2] = 0 /\ y[2] = 0 THEN x[1] < y[1]
    ELSE x[1] * y[2] < y[1] * x[2]

\* np.rint: nearest integer, ties to the even one; inf and NaN unchanged.
RInt(x) ==
    IF x[2] = 0 THEN x
    ELSE LET f == x[1] \div x[2]
             r == x[1] - f * x[2]
         IN  IF 2 * r < x[2] THEN R(f)
             ELSE IF 2 * r > x[2] THEN R(f + 1)
             ELSE IF f % 2 = 0 THEN R(f) ELSE R(f + 1)

\* np.min / np.max of a non-empty sequence: NaN if any element is NaN.
RECURSIVE RMinSeq(_)
RMinSeq(s) ==
    IF Len(s) = 1 THEN s[1]
    ELSE LET m == RMinSeq(Tail(s))
         IN  IF IsNaN(s[1]) \/ IsNaN(m) THEN NaN
             ELSE IF RLess(m, s[1]) THEN m ELSE s[1]

RECURSIVE RMaxSeq(_)
RMaxSeq(s) ==
    IF Len(s) = 1 THEN s[1]
    ELSE LET m == RMaxSeq(Tail(s))
         IN  IF IsNaN(s[1]) \/ IsNaN(m) THEN NaN
             ELSE IF RLess(s[1], m) THEN m ELSE s[1]

\* np.sum of a sequence.
RECURSIVE RSumSeq(_)
RSumSeq(s) == IF s = <<>> THEN R(0) ELSE RAdd(s[1], RSumSeq(Tail(s)))

\* log2 of a power of two (np.log(odds) in units of ln 2).
RECURSIVE Log2(_)
Log2(i) == IF i <= 1 THEN 0 ELSE 1 + Log2(i \div 2)

(***************************************************************************)
(* Configuration (the constructor parameters, changed by set_params).      *)
(* scaling_method is "None", "pdo_odds", "min_max" or an unsupported       *)
(* string; scaling_method_params is None, a dict or some other object; a   *)
(* dict maps its keys to values that are numbers or not.                   *)
(***************************************************************************)
Num(v) == [num |-> TRUE, v |-> v]

NotNum == [num |-> FALSE, v |-> 0]

NoDict == [k \in {} |-> NotNum]

Dict(d) == [kind |-> "dict", d |-> d]

PdoOdds(pdo, odds, scorecard_points) ==
    Dict(("pdo" :> pdo) @@ ("odds" :> odds)
         @@ ("scorecard_points" :> scorecard_points))

MinMax(a, b) == Dict(("min" :> a) @@ ("max" :> b))

\* The (scaling_method, scaling_method_params) pairs set_params is called with.
ScalingChoices ==
    { <<"None", [kind |-> "None", d |-> NoDict]>>,
      <<"pdo_odds", PdoOdds(Num(2), Num(2), Num(3))>>,
      <<"min_max", MinMax(Num(1), Num(4))>>,
      <<"min_max", MinMax(Num(2), Num(2))>> }

InvalidScalingChoices ==
    { <<"other", MinMax(Num(1), Num(4))>>,
      <<"pdo_odds", [kind |-> "None", d |-> NoDict]>>,
      <<"min_max", [kind |-> "other", d |-> NoDict]>>,
      <<"pdo_odds", MinMax(Num(1), Num(4))>>,
      <<"pdo_odds", Dict(("pdo" :> Num(2)) @@ ("odds" :> Num(2)))>>,
      <<"min_max", Dict(("min" :> Num(1)) @@ ("max" :> Num(4))
                        @@ ("pdo" :> Num(2)))>>,
      <<"pdo_odds", PdoOdds(Num(0), Num(2), Num(3))>>,
      <<"pdo_odds", PdoOdds(Num(2), NotNum, Num(3))>>,
      <<"pdo_odds", PdoOdds(Num(2), Num(2), Num(-1))>>,
      <<"min_max", MinMax(Num(3), Num(1))>> }

Config(sc, ib, rev, rnd) ==
    [scaling_method |-> sc[1], scaling_method_params |-> sc[2],
     intercept_based |-> ib, reverse_scorecard |-> rev, rounding |-> rnd]

Configs ==
    { Config(sc, ib, rev, rnd) :
        sc \in ScalingChoices, ib \in BOOLEAN, rev \in BOOLEAN, rnd \in BOOLEAN }
    \cup { Config(sc, FALSE, FALSE, FALSE) : sc \in InvalidScalingChoices }

\* The configurations used when one instance is fitted repeatedly.
RefitConfigs ==
    { Config(sc, FALSE, FALSE, FALSE) : sc \in InvalidScalingChoices }
    \cup { Config(<<"None", [kind |-> "None", d |-> NoDict]>>, ib, FALSE, rnd) :
             ib \in BOOLEAN, rnd \in BOOLEAN }
    \cup { Config(<<"pdo_odds", PdoOdds(Num(2), Num(2), Num(3))>>, ib, FALSE, FALSE) :
             ib \in BOOLEAN }
    \cup { Config(<<"min_max", MinMax(Num(1), Num(4))>>, TRUE, rev, rev) :
             rev \in BOOLEAN }

(***************************************************************************)
(* Parameter validation.  Both checks return "ok" or the exception raised. *)
(* target, binning_process, estimator and the four flags always have the   *)
(* right type in this model, so those branches of _check_parameters are    *)
(* not taken.                                                              *)
(***************************************************************************)
_check_parameters(c) ==
    IF c.scaling_method # "None"
    THEN IF c.scaling_method \notin {"pdo_odds", "min_max"} THEN "ValueError"
         ELSE IF c.scaling_method_params.kind = "None" THEN "ValueError"
         ELSE IF c.scaling_method_params.kind # "dict" THEN "TypeError"
         ELSE "ok"
    ELSE "ok"

default_keys(scaling_method) ==
    IF scaling_method = "pdo_odds" THEN {"pdo", "odds", "scorecard_points"}
    ELSE {"min", "max"}

min_gt_max_unchecked(d) == FALSE

\* if scaling_method_params["min"] > scaling_method_params["max"]
min_gt_max(d) == d["min"].v > d["max"].v

_check_scorecard_scaling(scaling_method, scaling_method_params, target_type) ==
    IF scaling_method = "None" THEN "ok"
    ELSE LET keys == default_keys(scaling_method)
             d    == scaling_method_params.d
         IN  IF scaling_method = "pdo_odds" /\ target_type # "binary"
             THEN "ValueError"
             ELSE IF DOMAIN d # keys THEN "ValueError"
             ELSE IF scaling_method = "pdo_odds"
             THEN IF \E param \in keys : ~d[param].num \/ d[param].v <= 0
                  THEN "ValueError" ELSE "ok"
             ELSE IF \E param \in keys : ~d[param].num THEN "ValueError"
             ELSE IF min_gt_max(d) THEN "ValueError"
             ELSE "ok"

(***************************************************************************)
(* What the external collaborators hand to _fit: the target type, the      *)
(* fitted binning process (one metric column per selected variable, WoE    *)
(* or mean), the fitted estimator (coef_, intercept_) and the outcome of   *)
(* RoundingMIP.solve.                                                      *)
(***************************************************************************)
TargetTypes == {"binary", "continuous", "multiclass"}

\* The metric (WoE / Mean) of bin j of a binning table.
Metric(j) == 2 * j - 3

BinColumns == { [j \in 1..nb |-> Metric(j)] : nb \in 1..MaxBins }

MetricTables == UNION { [1..n -> BinColumns] : n \in 1..MaxVars }

Coefs == {-1, 2}

NoCoefEstimator ==
    [has_coef |-> FALSE, coef |-> <<>>, has_intercept |-> FALSE, intercept |-> 0]

Estimators(n) ==
    { [has_coef |-> TRUE, coef |-> c, has_intercept |-> hi,
       intercept |-> IF hi THEN 1 ELSE 0] :
        c \in [1..n -> Coefs], hi \in BOOLEAN }
    \cup {NoCoefEstimator}

MipStatuses == {"OPTIMAL", "FEASIBLE", "INFEASIBLE"}

NoMip == [status |-> "-", up |-> FALSE]

MipOutcomes ==
    { [status |-> st, up |-> up] : st \in {"OPTIMAL", "FEASIBLE"}, up \in BOOLEAN }
    \cup { [status |-> "INFEASIBLE", up |-> FALSE] }

\* One training set as _fit sees it: the type of its target, the binning
\* tables fitted on it and the estimator fitted on the transformed data.
Data(tt, metric, est) == [tt |-> tt, metric |-> metric, est |-> est]

AllData ==
    { Data(tt, metric, est) :
        tt \in {"binary", "continuous"}, metric \in MetricTables,
        est \in UNION { Estimators(n) : n \in 1..MaxVars } }
    \cup { Data("multiclass", <<>>, NoCoefEstimator) }

WellFormed(d) ==
    d.tt = "multiclass" \/ ~d.est.has_coef \/ Len(d.est.coef) = Len(d.metric)

\* The training sets used when one instance is fitted repeatedly.
TwoByTwo == [i \in 1..2 |-> [j \in 1..2 |-> Metric(j)]]

RefitData ==
    { Data("binary", TwoByTwo,
           [has_coef |-> TRUE, coef |-> <<2, -1>>, has_intercept |-> TRUE,
            intercept |-> 1]),
      Data("binary", <<<<Metric(1)>>>>,
           [has_coef |-> TRUE, coef |-> <<2>>, has_intercept |-> FALSE,
            intercept |-> 0]),
      Data("binary", TwoByTwo, NoCoefEstimator),
      Data("continuous", <<<<Metric(1), Metric(2)>>>>,
           [has_coef |-> TRUE, coef |-> <<-1>>, has_intercept |-> TRUE,
            intercept |-> 1]),
      Data("multiclass", <<>>, NoCoefEstimator) }

(***************************************************************************)
(* The scorecard table: a sequence of rows [Variable, Points], grouped by  *)
(* variable in the order of the selected variables.                        *)
(***************************************************************************)
PointsOf(df) == [k \in 1..Len(df) |-> df[k].Points]

SetPoints(df, pts) == [k \in 1..Len(df) |-> [df[k] EXCEPT !.Points = pts[k]]]

\* binning_table["Points"] = binning_table[bt_metric] * c, per selected variable.
raw_binning_tables(metric, coef) ==
    [i \in 1..Len(metric) |->
        [j \in 1..Len(metric[i]) |-> R(metric[i][j] * coef[i])]]

\* pd.concat(binning_tables)
RECURSIVE concat_from(_, _)
concat_from(binning_tables, i) ==
    IF i > Len(binning_tables) THEN <<>>
    ELSE [j \in 1..Len(binning_tables[i]) |->
             [Variable |-> i, Points |-> binning_tables[i][j]]]
         \o concat_from(binning_tables, i + 1)

concat(binning_tables) == concat_from(binning_tables, 1)

\* df_scorecard[df_scorecard.Variable == variable].Points.values
points_of_variable(df, variable) ==
    PointsOf(SelectSeq(df, LAMBDA row : row.Variable = variable))

\* df_scorecard.Variable.unique(): the variables in order of first appearance.
RECURSIVE unique_from(_, _, _)
unique_from(df, k, seen) ==
    IF k > Len(df) THEN <<>>
    ELSE IF df[k].Variable \in seen THEN unique_from(df, k + 1, seen)
    ELSE <<df[k].Variable>> \o unique_from(df, k + 1, seen \cup {df[k].Variable})

unique_variables(df) == unique_from(df, 1, {})

(***************************************************************************)
(* _compute_scorecard_points: the scaling method applied to the points.    *)
(***************************************************************************)
sense_unreversed(reverse_scorecard) == 1

\* sense = -1 if reverse_scorecard else 1
sense(reverse_scorecard) == IF reverse_scorecard THEN -1 ELSE 1

shift_unreversed(a, b, slope, smin, reverse_scorecard) == RSub(b, RMul(slope, smin))

shift(a, b, slope, smin, reverse_scorecard) ==
    IF reverse_scorecard THEN RSub(a, RMul(slope, smin))
    ELSE RSub(b, RMul(slope, smin))

_compute_scorecard_points(points, binning_tables, method, method_data, intercept, reverse_scorecard) ==
    LET n == R(Len(binning_tables))
        s == R(sense(reverse_scorecard))
    IN  IF method = "pdo_odds"
        THEN LET pdo    == R(method_data["pdo"].v)
                 odds   == method_data["odds"].v
                 scorecard_points == R(method_data["scorecard_points"].v)
                 \* pdo / ln 2, applied to points measured in units of ln 2
                 factor == pdo
                 offset == RSub(scorecard_points, RMul(factor, R(Log2(odds))))
             IN  [k \in 1..Len(points) |->
                    RAdd(RMul(RNeg(RAdd(RMul(s, points[k]), RDiv(intercept, n))),
                              factor),
                         RDiv(offset, n))]
        ELSE LET a     == R(method_data["min"].v)
                 b     == R(method_data["max"].v)
                 min_p == RSumSeq([i \in 1..Len(binning_tables) |->
                                      RMinSeq(binning_tables[i])])
                 max_p == RSumSeq([i \in 1..Len(binning_tables) |->
                                      RMaxSeq(binning_tables[i])])
                 smin  == RAdd(intercept, min_p)
                 smax  == RAdd(intercept, max_p)
                 slope == RDiv(RMul(s, RSub(a, b)), RSub(smax, smin))
                 sh    == shift(a, b, slope, smin, reverse_scorecard)
                 base_points == RAdd(sh, RMul(slope, intercept))
             IN  [k \in 1..Len(points) |->
                    RAdd(RDiv(base_points, n), RMul(slope, points[k]))]

(***************************************************************************)
(* _compute_intercept_based: the lowest point of every variable becomes    *)
(* zero; returns <<scaled_points, intercept>>.                             *)
(***************************************************************************)
_compute_intercept_based(df_scorecard) ==
    LET selected_variables == unique_variables(df_scorecard)
        min_point(variable) == RMinSeq(points_of_variable(df_scorecard, variable))
        scaled_points ==
            [k \in 1..Len(df_scorecard) |->
                RSub(df_scorecard[k].Points, min_point(df_scorecard[k].Variable))]
        intercept ==
            RSumSeq([i \in 1..Len(selected_variables) |->
                        min_point(selected_variables[i])])
    IN  <<scaled_points, intercept>>

(***************************************************************************)
(* The stages of Scorecard._fit after the raw table is built.              *)
(***************************************************************************)
\* "# Apply score points": scaling and, nested in it, the intercept-based
\* transform.  Returns the table, the value of self.intercept_ and whether
\* _compute_intercept_based was called.
apply_score_points(c, df_scorecard, binning_tables, intercept, old_intercept_) ==
    IF c.scaling_method # "None"
    THEN LET scaled_points ==
                 _compute_scorecard_points(
                     PointsOf(df_scorecard), binning_tables, c.scaling_method,
                     c.scaling_method_params.d, intercept, c.reverse_scorecard)
             df1 == SetPoints(df_scorecard, scaled_points)
         IN  IF c.intercept_based
             THEN LET r == _compute_intercept_based(df1)
                  IN  [df |-> SetPoints(df1, r[1]), intercept_ |-> r[2],
                       rebalanced |-> TRUE]
             ELSE [df |-> df1, intercept_ |-> old_intercept_,
                   rebalanced |-> FALSE]
    ELSE [df |-> df_scorecard, intercept_ |-> old_intercept_,
          rebalanced |-> FALSE]

\* RoundingMIP.build_model(df_scorecard); RoundingMIP.solve(): a status and,
\* when the status is OPTIMAL or FEASIBLE, an integer value per row (here the
\* floor of every point, or the floor plus one); otherwise no values.
RoundingMIP_solve(df_scorecard, mip) ==
    IF mip.status \in {"OPTIMAL", "FEASIBLE"}
    THEN <<mip.status,
           [k \in 1..Len(df_scorecard) |->
               LET x == df_scorecard[k].Points
               IN  IF IsFinite(x)
                   THEN R((x[1] \div x[2]) + (IF mip.up THEN 1 ELSE 0))
                   ELSE x]>>
    ELSE <<mip.status, <<>>>>

calls_mip(c) == c.rounding /\ c.scaling_method = "min_max"

\* np.floor
RFloor(x) == IF x[2] = 0 THEN x ELSE R(x[1] \div x[2])

mip_fallback_floors(status, round_points, points) ==
    IF status \notin {"OPTIMAL", "FEASIBLE"}
    THEN [k \in 1..Len(points) |-> RFloor(points[k])]
    ELSE round_points

\* if status not in ("OPTIMAL", "FEASIBLE"): round_points = np.rint(points)
mip_fallback(status, round_points, points) ==
    IF status \notin {"OPTIMAL", "FEASIBLE"}
    THEN [k \in 1..Len(points) |-> RInt(points[k])]
    ELSE round_points

\* "if self.rounding:".  With scaling_method None neither branch binds
\* round_points and the assignment that follows raises UnboundLocalError.
round_points_stage(c, df_scorecard, mip) ==
    IF c.rounding
    THEN LET points == PointsOf(df_scorecard)
         IN  IF c.scaling_method = "pdo_odds"
             THEN [outcome |-> "ok",
                   df |-> SetPoints(df_scorecard,
                                    [k \in 1..Len(points) |-> RInt(points[k])])]
             ELSE IF c.scaling_method = "min_max"
             THEN LET r == RoundingMIP_solve(df_scorecard, mip)
                  IN  [outcome |-> "ok",
                       df |-> SetPoints(df_scorecard,
                                        mip_fallback(r[1], r[2], points))]
             ELSE [outcome |-> "UnboundLocalError", df |-> df_scorecard]
    ELSE [outcome |-> "ok", df |-> df_scorecard]

\* intercept = self.estimator_.intercept_ if the estimator has one, else 0
model_intercept(est) == IF est.has_intercept THEN R(est.intercept) ELSE R(0)

check_is_fitted_skipped(is_fitted) == "ok"

\* Scorecard._check_is_fitted
_check_is_fitted(is_fitted) == IF ~is_fitted THEN "NotFittedError" ELSE "ok"

(***************************************************************************)
(* State of one Scorecard instance.                                        *)
(***************************************************************************)
VARIABLES
    cfg,               \* the constructor parameters (get_params / set_params)
    _is_fitted,        \* self._is_fitted
    _df_scorecard,     \* self._df_scorecard; <<>> while the attribute is unset
    binning_process_,  \* self.binning_process_: [fit, metric]; fit = 0 is None
    estimator_,        \* self.estimator_: [fit, est]; fit = 0 is None
    intercept_,        \* self.intercept_
    _target_dtype,     \* self._target_dtype ("None" until set)
    fitCalls,          \* number of fit calls made so far
    lastOk,            \* history: the latest fit call that returned
    last               \* history: the latest call, its inputs and its outcome

vars == <<cfg, _is_fitted, _df_scorecard, binning_process_, estimator_,
          intercept_, _target_dtype, fitCalls, lastOk, last>>

NoBinningProcess == [fit |-> 0, metric |-> <<>>]

NoEstimator == [fit |-> 0, est |-> NoCoefEstimator]

\* The record of a call: its outcome ("ok" or the exception raised), what the
\* collaborators handed to it as far as it got, and the object as it was
\* when the call began.
Call(op, outcome) ==
    [op |-> op, outcome |-> outcome, tt |-> "-", metric |-> <<>>,
     est |-> NoCoefEstimator, mip |-> NoMip, arg |-> <<>>, value |-> R(0),
     before |-> [_is_fitted |-> _is_fitted, _df_scorecard |-> _df_scorecard,
                 binning_process_ |-> binning_process_.fit,
                 estimator_ |-> estimator_.fit, intercept_ |-> intercept_]]

\* Scorecard.__init__
InitWith(configs) ==
    /\ cfg \in configs
    /\ _is_fitted = FALSE
    /\ _df_scorecard = <<>>
    /\ binning_process_ = NoBinningProcess
    /\ estimator_ = NoEstimator
    /\ intercept_ = R(0)
    /\ _target_dtype = "None"
    /\ fitCalls = 0
    /\ lastOk = [call |-> 0, ran |-> FALSE, removed |-> R(0)]
    /\ last = [op |-> "__init__", outcome |-> "ok", tt |-> "-", metric |-> <<>>,
               est |-> NoCoefEstimator, mip |-> NoMip, arg |-> <<>>,
               value |-> R(0),
               before |-> [_is_fitted |-> FALSE, _df_scorecard |-> <<>>,
                           binning_process_ |-> 0, estimator_ |-> 0,
                           intercept_ |-> R(0)]]

Init == InitWith(RefitConfigs)

InitAny == InitWith(Configs)

(***************************************************************************)
(* set_params: a configuration change between fits.                        *)
(***************************************************************************)
SetParams ==
    /\ fitCalls < MaxFits
    /\ \E c \in RefitConfigs : cfg' = c
    /\ last' = Call("set_params", "ok")
    /\ UNCHANGED <<_is_fitted, _df_scorecard, binning_process_, estimator_,
                   intercept_, _target_dtype, fitCalls, lastOk>>

(***************************************************************************)
(* fit(df) = _fit(df, ...).                                                *)
(***************************************************************************)
\* An exception before "# Fit binning process".
FitRaisesEarly(error, tt, dtype) ==
    /\ last' = [Call("fit", error) EXCEPT !.tt = tt]
    /\ _target_dtype' = dtype
    /\ UNCHANGED <<_is_fitted, _df_scorecard, binning_process_, estimator_,
                   intercept_, lastOk>>

\* The rest of _fit: both clones are fitted, the table is built, scaled,
\* rebalanced, rounded and stored.
FitBuilds(d, mip) ==
    LET call == [Call("fit", "ok") EXCEPT !.tt = d.tt, !.metric = d.metric,
                                          !.est = d.est, !.mip = mip]
    IN  /\ _target_dtype' = d.tt
        /\ binning_process_' = [fit |-> fitCalls + 1, metric |-> d.metric]
        /\ estimator_' = [fit |-> fitCalls + 1, est |-> d.est]
        /\ IF ~d.est.has_coef
           THEN /\ last' = [call EXCEPT !.outcome = "RuntimeError"]
                /\ UNCHANGED <<_is_fitted, _df_scorecard, intercept_, lastOk>>
           ELSE LET binning_tables == raw_binning_tables(d.metric, d.est.coef)
                    df_scorecard   == concat(binning_tables)
                    s == apply_score_points(cfg, df_scorecard, binning_tables,
                                            model_intercept(d.est), intercept_)
                    r == round_points_stage(cfg, s.df, mip)
                IN  /\ intercept_' = s.intercept_
                    /\ last' = [call EXCEPT !.outcome = r.outcome]
                    /\ IF r.outcome = "ok"
                       THEN /\ _df_scorecard' = r.df
                            /\ _is_fitted' = TRUE
                            /\ lastOk' =
                                 [call |-> fitCalls + 1,
                                  ran |-> s.rebalanced,
                                  removed |-> IF s.rebalanced
                                              THEN s.intercept_ ELSE R(0)]
                       ELSE UNCHANGED <<_is_fitted, _df_scorecard, lastOk>>

FitOn(data) ==
    /\ fitCalls' = fitCalls + 1
    /\ UNCHANGED cfg
    /\ LET e1 == _check_parameters(cfg)
       IN  IF e1 # "ok" THEN FitRaisesEarly(e1, "-", _target_dtype)
           ELSE \E d \in data :
                  LET e2 == IF d.tt \notin {"binary", "continuous"}
                            THEN "ValueError"
                            ELSE _check_scorecard_scaling(
                                     cfg.scaling_method,
                                     cfg.scaling_method_params, d.tt)
                  IN  IF e2 # "ok" THEN FitRaisesEarly(e2, d.tt, d.tt)
                      ELSE /\ WellFormed(d)
                           /\ \E mip \in IF d.est.has_coef /\ calls_mip(cfg)
                                         THEN MipOutcomes ELSE {NoMip} :
                                FitBuilds(d, mip)

\* A fit call on an instance that may have been fitted before.
Fit == fitCalls < MaxFits /\ FitOn(RefitData)

\* The first fit call on a new instance, on any training set.
FitOnce == fitCalls = 0 /\ FitOn(AllData)

(***************************************************************************)
(* score, table, predict, predict_proba, information.                      *)
(***************************************************************************)
\* The bins one observation falls into, per selected variable of the fitted
\* binning process (binning_process_.transform(df_t, metric="indices")).
Observations ==
    { obs \in [1..Len(binning_process_.metric) -> 1..MaxBins] :
        \A v \in DOMAIN obs : obs[v] <= Len(binning_process_.metric[v]) }

\* score_ += points[df_t[variable]] over the selected variables, + intercept_
score_of(df_scorecard, obs, intercept) ==
    RAdd(RSumSeq([v \in 1..Len(obs) |->
                     points_of_variable(df_scorecard, v)[obs[v]]]),
         intercept)

Score ==
    /\ IF _check_is_fitted(_is_fitted) # "ok"
       THEN last' = Call("score", _check_is_fitted(_is_fitted))
       ELSE \E obs \in Observations :
              IF \E v \in DOMAIN obs :
                    obs[v] > Len(points_of_variable(_df_scorecard, v))
              THEN last' = [Call("score", "IndexError") EXCEPT !.arg = obs]
              ELSE last' = [Call("score", "ok") EXCEPT
                               !.arg = obs,
                               !.value = score_of(_df_scorecard, obs, intercept_)]
    /\ UNCHANGED <<cfg, _is_fitted, _df_scorecard, binning_process_, estimator_,
                   intercept_, _target_dtype, fitCalls, lastOk>>

Table ==
    /\ IF _check_is_fitted(_is_fitted) # "ok"
       THEN last' = Call("table", _check_is_fitted(_is_fitted))
       ELSE \E style \in {"summary", "other"} :
              last' = [Call("table", IF style \notin {"summary", "detailed"}
                                     THEN "ValueError" ELSE "ok")
                          EXCEPT !.arg = <<style>>]
    /\ UNCHANGED <<cfg, _is_fitted, _df_scorecard, binning_process_, estimator_,
                   intercept_, _target_dtype, fitCalls, lastOk>>

Predict ==
    /\ last' = Call("predict", _check_is_fitted(_is_fitted))
    /\ UNCHANGED <<cfg, _is_fitted, _df_scorecard, binning_process_, estimator_,
                   intercept_, _target_dtype, fitCalls, lastOk>>

PredictProba ==
    /\ last' = Call("predict_proba", _check_is_fitted(_is_fitted))
    /\ UNCHANGED <<cfg, _is_fitted, _df_scorecard, binning_process_, estimator_,
                   intercept_, _target_dtype, fitCalls, lastOk>>

Information ==
    /\ IF _check_is_fitted(_is_fitted) # "ok"
       THEN last' = Call("information", _check_is_fitted(_is_fitted))
       ELSE \E print_level \in {-1, 1} :
              last' = [Call("information", IF print_level < 0
                                           THEN "ValueError" ELSE "ok")
                          EXCEPT !.arg = <<print_level>>]
    /\ UNCHANGED <<cfg, _is_fitted, _df_scorecard, binning_process_, estimator_,
                   intercept_, _target_dtype, fitCalls, lastOk>>

Next ==
    \/ SetParams
    \/ Fit
    \/ Score
    \/ Table
    \/ Predict
    \/ PredictProba
    \/ Information

\* One instance, reconfigured and fitted repeatedly on a few training sets.
Spec == Init /\ [][Next]_vars

\* A new instance in any configuration, fitted once on any training set.
FitSpec == InitAny /\ [][FitOnce]_vars

TypeOK ==
    /\ cfg \in Configs
    /\ _is_fitted \in BOOLEAN
    /\ fitCalls \in 0..MaxFits
    /\ binning_process_.fit \in 0..fitCalls
    /\ estimator_.fit \in 0..fitCalls
    /\ lastOk.call \in 0..fitCalls

(***************************************************************************)
(* Vocabulary of the properties: what the latest fit call was handed and   *)
(* what a scorecard table scores.                                          *)
(***************************************************************************)
\* The latest call was a fit that got as far as building the raw table.
FitBuilt == last.op = "fit" /\ last.est.has_coef

FitReturned == last.op = "fit" /\ last.outcome = "ok"

LastTables == raw_binning_tables(last.metric, last.est.coef)

LastRaw == concat(LastTables)

LastIntercept == model_intercept(last.est)

\* One bin per variable, for tables with the given bin counts.
Combinations(binning_tables) ==
    { o \in [1..Len(binning_tables) -> 1..MaxBins] :
        \A v \in DOMAIN o : o[v] <= Len(binning_tables[v]) }

\* The Points column of every variable of table df.
Columns(df) == [v \in 1..Len(LastTables) |-> points_of_variable(df, v)]

\* The sum of the points of the bins of combination o, given the columns.
TotalIn(columns, o) == RSumSeq([v \in 1..Len(o) |-> columns[v][o[v]]])

\* The sum of the points of the bins of combination o in table df.
Total(df, o) == TotalIn(Columns(df), o)

Totals(df, combos) ==
    UNION { { TotalIn(columns, o) : o \in combos } : columns \in {Columns(df)} }

Smallest(values) == { m \in values : \A t \in values : ~RLess(t, m) }

Largest(values) == { m \in values : \A t \in values : ~RLess(m, t) }

LastMinP == RSumSeq([i \in 1..Len(LastTables) |-> RMinSeq(LastTables[i])])

LastMaxP == RSumSeq([i \in 1..Len(LastTables) |-> RMaxSeq(LastTables[i])])

\* The raw score of a combination: the sum of its raw points + the intercept.
RawScore(o) == RAdd(Total(LastRaw, o), LastIntercept)

ParamA == R(cfg.scaling_method_params.d["min"].v)

ParamB == R(cfg.scaling_method_params.d["max"].v)

\* The latest fit returned a min_max-scaled table that was neither rebalanced
\* nor rounded, from raw points with smax # smin and a configured min < max.
MinMaxScaledCase ==
    /\ FitReturned
    /\ cfg.scaling_method = "min_max"
    /\ ~cfg.intercept_based
    /\ ~cfg.rounding
    /\ RLess(ParamA, ParamB)
    /\ LastMinP # LastMaxP

StoredTotals == Totals(_df_scorecard, Combinations(LastTables))

\* The combination of every variable's lowest raw point (raw score smin).
LowestRaw ==
    { o \in Combinations(LastTables) :
        \A v \in DOMAIN o : LastTables[v][o[v]] = RMinSeq(LastTables[v]) }

(***************************************************************************)
(* C1.  As claimed: under min_max scaling with min a < max b and           *)
(* smax # smin, the totals of the scaled points over all one-bin-per-      *)
(* variable combinations have smallest value a and largest value b when    *)
(* reverse_scorecard is False, and smallest b and largest a when it is     *)
(* True.                                                                   *)
(***************************************************************************)
C1_RangeSwapsWhenReversed ==
    MinMaxScaledCase =>
        IF cfg.reverse_scorecard
        THEN Smallest(StoredTotals) = {ParamB} /\ Largest(StoredTotals) = {ParamA}
        ELSE Smallest(StoredTotals) = {ParamA} /\ Largest(StoredTotals) = {ParamB}

(***************************************************************************)
(* C1, amended.  Under min_max scaling with min a < max b and smax # smin, *)
(* the totals of the scaled points have smallest value a and largest value *)
(* b for both settings of reverse_scorecard; what reverse_scorecard swaps  *)
(* is the end the lowest raw score lands on: the combination of all        *)
(* per-variable raw minima totals b when reverse_scorecard is False and a  *)
(* when it is True.                                                        *)
(***************************************************************************)
C1_RangeIsMinMax ==
    MinMaxScaledCase =>
        /\ Smallest(StoredTotals) = {ParamA}
        /\ Largest(StoredTotals) = {ParamB}
        /\ \A o \in LowestRaw :
              Total(_df_scorecard, o) =
                 IF cfg.reverse_scorecard THEN ParamA ELSE ParamB

C1_Witness ==
    /\ MinMaxScaledCase
    /\ cfg.reverse_scorecard
    /\ Len(LastTables) = 2
    /\ Cardinality(StoredTotals) > 2
    /\ LastIntercept # R(0)

(***************************************************************************)
(* C2.  As claimed: under min_max scaling with smax = smin the fit fails   *)
(* with an error; no fit returns with an infinite or NaN point stored in   *)
(* the scorecard.                                                          *)
(***************************************************************************)
C2_DegenerateRangeRaises ==
    (FitBuilt /\ cfg.scaling_method = "min_max") =>
        /\ (LastMinP = LastMaxP => last.outcome # "ok")
        /\ (last.outcome = "ok" =>
               \A k \in 1..Len(_df_scorecard) : IsFinite(_df_scorecard[k].Points))

(***************************************************************************)
(* C3.  When rounding is enabled under min_max scaling and                 *)
(* RoundingMIP.solve returns a status other than OPTIMAL or FEASIBLE, fit  *)
(* does not fail and every stored point is the nearest integer of the      *)
(* pre-rounding point; when the status is OPTIMAL or FEASIBLE the stored   *)
(* points are exactly the sequence the optimizer returned.                 *)
(***************************************************************************)
\* The table of the latest fit as it stood before the rounding stage.
LastPreRounding ==
    apply_score_points(cfg, LastRaw, LastTables, LastIntercept,
                       last.before.intercept_).df

NearestIntegers(df) == [k \in 1..Len(df) |-> RInt(df[k].Points)]

SolveCalled == last.op = "fit" /\ last.mip.status \in MipStatuses

C3_MipFallback ==
    SolveCalled =>
        /\ last.outcome = "ok"
        /\ cfg.rounding /\ cfg.scaling_method = "min_max"
        /\ IF last.mip.status \in {"OPTIMAL", "FEASIBLE"}
           THEN PointsOf(_df_scorecard)
                  = RoundingMIP_solve(LastPreRounding, last.mip)[2]
           ELSE PointsOf(_df_scorecard) = NearestIntegers(LastPreRounding)

C3_Witness ==
    /\ SolveCalled
    /\ last.mip.status = "INFEASIBLE"
    /\ last.outcome = "ok"
    /\ \E k \in 1..Len(_df_scorecard) :
          /\ IsFinite(LastPreRounding[k].Points)
          /\ LastPreRounding[k].Points[2] = 2
          /\ _df_scorecard[k].Points # LastPreRounding[k].Points

(***************************************************************************)
(* C4.  As claimed: when rounding is enabled and the scaling method is     *)
(* pdo_odds or None, the rounding stage always succeeds and replaces every *)
(* point by its nearest integer; fit never fails because of rounding.      *)
(***************************************************************************)
C4_PlainRoundingSucceeds ==
    (FitBuilt /\ cfg.rounding /\ cfg.scaling_method \in {"pdo_odds", "None"}) =>
        /\ last.outcome = "ok"
        /\ PointsOf(_df_scorecard) = NearestIntegers(LastPreRounding)

(***************************************************************************)
(* C5.  As claimed: the points stored by a successful fit are the raw      *)
(* points put through exactly the enabled stages, each at most once, in    *)
(* the order PointsScaler, InterceptRebalancer, IntegerRounder; each stage *)
(* runs if and only if its own toggle is enabled, whatever the others are  *)
(* (the InterceptRebalancer also when scaling_method is None).             *)
(***************************************************************************)
IndependentStages ==
    LET p0 == PointsOf(LastRaw)
        p1 == IF cfg.scaling_method # "None"
              THEN _compute_scorecard_points(
                       p0, LastTables, cfg.scaling_method,
                       cfg.scaling_method_params.d, LastIntercept,
                       cfg.reverse_scorecard)
              ELSE p0
        p2 == IF cfg.intercept_based
              THEN _compute_intercept_based(SetPoints(LastRaw, p1))[1]
              ELSE p1
        df2 == SetPoints(LastRaw, p2)
        p3 == IF ~cfg.rounding THEN p2
              ELSE IF cfg.scaling_method = "min_max"
                      /\ last.mip.status \in {"OPTIMAL", "FEASIBLE"}
              THEN RoundingMIP_solve(df2, last.mip)[2]
              ELSE NearestIntegers(df2)
    IN  p3

C5_StagesToggleIndependently ==
    FitReturned => PointsOf(_df_scorecard) = IndependentStages

(***************************************************************************)
(* C6.  Every invalid scaling configuration (scaling_method outside None,  *)
(* pdo_odds, min_max; a parameter key set that is not exactly {pdo, odds,  *)
(* scorecard_points} resp. {min, max}; a pdo/odds/scorecard_points value   *)
(* that is non-numeric or <= 0; min > max; pdo_odds with a non-binary      *)
(* target) makes fit raise before the binning process and the estimator    *)
(* are fitted and before any point is computed: the fitted flag, the       *)
(* stored table, binning_process_, estimator_ and intercept_ are as they   *)
(* were before the call.                                                   *)
(***************************************************************************)
HasKeys(c, keys) ==
    c.scaling_method_params.kind = "dict" /\ DOMAIN c.scaling_method_params.d = keys

InvalidScaling(c, tt) ==
    \/ c.scaling_method \notin {"None", "pdo_odds", "min_max"}
    \/ /\ c.scaling_method = "pdo_odds"
       /\ \/ ~HasKeys(c, {"pdo", "odds", "scorecard_points"})
          \/ \E k \in DOMAIN c.scaling_method_params.d :
                \/ ~c.scaling_method_params.d[k].num
                \/ c.scaling_method_params.d[k].v <= 0
          \/ tt \in {"continuous", "multiclass"}
    \/ /\ c.scaling_method = "min_max"
       /\ IF HasKeys(c, {"min", "max"})
          THEN c.scaling_method_params.d["min"].v > c.scaling_method_params.d["max"].v
          ELSE TRUE

ObjectAsBefore ==
    /\ _is_fitted = last.before._is_fitted
    /\ _df_scorecard = last.before._df_scorecard
    /\ binning_process_.fit = last.before.binning_process_
    /\ estimator_.fit = last.before.estimator_
    /\ intercept_ = last.before.intercept_

C6_InvalidScalingRaisesFirst ==
    (last.op = "fit" /\ InvalidScaling(cfg, last.tt)) =>
        /\ last.outcome \in {"ValueError", "TypeError"}
        /\ ObjectAsBefore

C6_Witness ==
    /\ last.op = "fit"
    /\ cfg.scaling_method = "min_max"
    /\ InvalidScaling(cfg, last.tt)
    /\ last.outcome = "ValueError"
    /\ last.before._is_fitted
    /\ _df_scorecard # <<>>
    /\ binning_process_.fit = 1
    /\ fitCalls = 2

(***************************************************************************)
(* C7.  As claimed: for the same raw points, intercept and scaling         *)
(* parameters, of any two bin combinations the one with the larger raw     *)
(* score has the smaller scaled total under one setting of                 *)
(* reverse_scorecard and the larger under the other (pdo_odds and          *)
(* min_max); and under min_max the smallest and the largest scaled total   *)
(* are the same two values for both settings.                              *)
(***************************************************************************)
ScaledWith(reverse_scorecard) ==
    SetPoints(LastRaw,
              _compute_scorecard_points(
                  PointsOf(LastRaw), LastTables, cfg.scaling_method,
                  cfg.scaling_method_params.d, LastIntercept, reverse_scorecard))

ScalingCase == FitBuilt /\ cfg.scaling_method \in {"pdo_odds", "min_max"}

\* For every combination: <<its raw score, its scaled total with
\* reverse_scorecard False, its scaled total with reverse_scorecard True>>.
ScoreTriples ==
    UNION { { <<RAdd(TotalIn(c.raw, o), LastIntercept),
                TotalIn(c.unreversed, o), TotalIn(c.reversed, o)>> :
                o \in Combinations(LastTables) } :
            c \in { [raw |-> Columns(LastRaw),
                     unreversed |-> Columns(ScaledWith(FALSE)),
                     reversed |-> Columns(ScaledWith(TRUE))] } }

\* The order of the raw scores is inverted between the two settings.
OrderInverted(triples) ==
    \A x, y \in triples :
        RLess(x[1], y[1]) =>
            \/ RLess(x[2], y[2]) /\ RLess(y[3], x[3])
            \/ RLess(y[2], x[2]) /\ RLess(x[3], y[3])

SameExtremes(triples) ==
    LET unreversed == { x[2] : x \in triples }
        reversed   == { x[3] : x \in triples }
    IN  /\ Smallest(unreversed) = Smallest(reversed)
        /\ Largest(unreversed) = Largest(reversed)

C7_ReverseInvertsOrder ==
    ScalingCase =>
        LET triples == ScoreTriples
        IN  /\ OrderInverted(triples)
            /\ cfg.scaling_method = "min_max" => SameExtremes(triples)

(***************************************************************************)
(* C7, amended.  The order is inverted as claimed under pdo_odds and under *)
(* min_max with min < max; under min_max with min = max (which the         *)
(* validation accepts) nothing is inverted: every combination has the same *)
(* total under both settings.  Under min_max the smallest and the largest  *)
(* scaled total are the same two values for both settings.                 *)
(***************************************************************************)
C7_ReverseInvertsOrderUnlessFlat ==
    ScalingCase =>
        LET triples == ScoreTriples
        IN  /\ (cfg.scaling_method = "pdo_odds" \/ RLess(ParamA, ParamB)) =>
                  OrderInverted(triples)
            /\ (cfg.scaling_method = "min_max" /\ ParamA = ParamB) =>
                  \A x \in triples : x[2] = x[3]
            /\ cfg.scaling_method = "min_max" => SameExtremes(triples)

C7_Witness ==
    /\ ScalingCase
    /\ FitReturned
    /\ cfg.scaling_method = "pdo_odds"
    /\ ~cfg.intercept_based /\ ~cfg.rounding /\ cfg.reverse_scorecard
    /\ _df_scorecard = ScaledWith(TRUE)
    /\ LastIntercept # R(0)
    /\ \E o1, o2 \in Combinations(LastTables) :
          /\ RLess(RawScore(o2), RawScore(o1))
          /\ RLess(Total(_df_scorecard, o2), Total(_df_scorecard, o1))
          /\ RLess(Total(ScaledWith(FALSE), o1), Total(ScaledWith(FALSE), o2))

(***************************************************************************)
(* C8.  score, table, predict, predict_proba and information raise the     *)
(* not-fitted error unless an earlier fit call on the instance returned;   *)
(* a fit call that raises never turns an unfitted instance into a fitted   *)
(* one.                                                                    *)
(***************************************************************************)
CallOps == {"score", "table", "predict", "predict_proba", "information"}

C8_NotFittedUntilFitReturns ==
    /\ last.op \in CallOps =>
          (last.outcome = "NotFittedError" <=> lastOk.call = 0)
    /\ (last.op = "fit" /\ last.outcome # "ok" /\ ~last.before._is_fitted) =>
          ~_is_fitted
    /\ _is_fitted => lastOk.call > 0

C8_Witness ==
    /\ last.op = "score"
    /\ last.outcome = "NotFittedError"
    /\ fitCalls = 2
    /\ binning_process_.fit = 2
    /\ lastOk.call = 0

(***************************************************************************)
(* C9.  As claimed: _compute_intercept_based, applied to any scorecard     *)
(* table, returns points in which the minimum point of every variable is   *)
(* exactly 0 and an intercept equal to the sum of the removed per-variable *)
(* minima, so that for every choice of one bin per variable the sum of the *)
(* original points equals the sum of the new points plus the intercept.    *)
(***************************************************************************)
\* The latest fit returned a table that was rebalanced and not rounded.
RebalancedCase ==
    /\ FitReturned
    /\ cfg.scaling_method # "None"
    /\ cfg.intercept_based
    /\ ~cfg.rounding

C9_RebalancedMinimaAreZero ==
    RebalancedCase =>
        LET original == ScaledWith(cfg.reverse_scorecard)
        IN  /\ \A v \in 1..Len(LastTables) :
                  RMinSeq(points_of_variable(_df_scorecard, v)) = R(0)
            /\ intercept_ =
                  RSumSeq([v \in 1..Len(LastTables) |->
                              RMinSeq(points_of_variable(original, v))])
            /\ \A o \in Combinations(LastTables) :
                  Total(original, o) = RAdd(Total(_df_scorecard, o), intercept_)

(***************************************************************************)
(* C10.  As claimed: after any sequence of fit calls with configuration    *)
(* changes in between, the intercept_ that score() adds is determined by   *)
(* the latest successful fit alone: 0 if that fit did not run the          *)
(* InterceptRebalancer, otherwise the sum of the per-variable minima       *)
(* removed in that fit.                                                    *)
(***************************************************************************)
InterceptOfLatestFit == IF lastOk.ran THEN lastOk.removed ELSE R(0)

C10_InterceptFromLatestFit ==
    /\ lastOk.call > 0 => intercept_ = InterceptOfLatestFit
    /\ (last.op = "score" /\ last.outcome = "ok") =>
          last.value =
             RAdd(TotalIn([v \in 1..Len(last.arg) |->
                              points_of_variable(_df_scorecard, v)], last.arg),
                  InterceptOfLatestFit)


(***************************************************************************)
(* C11.  As claimed: in every reachable state in which the fitted flag is  *)
(* true, the stored scorecard table, binning_process_ and estimator_ were  *)
(* all produced by the same fit call, the latest one that returned; and no *)
(* score / predict / predict_proba call that passes the fitted check works *)
(* with a binning process or an estimator of another fit call than the one *)
(* that produced the table.                                                *)
(***************************************************************************)
\* The fit call that stored the present scorecard table (0: none did).
TableFit == lastOk.call

FromOneFit ==
    /\ binning_process_.fit = TableFit
    /\ estimator_.fit = TableFit

UsesFittedParts ==
    /\ last.op \in {"score", "predict", "predict_proba"}
    /\ last.before._is_fitted

C11_FittedPartsFromOneFit ==
    /\ _is_fitted => FromOneFit
    /\ UsesFittedParts => FromOneFit

====
